---- MODULE Spec2Model ----
(***************************************************************************)
(* GlowFlow / BeautyVibe AI backend: the image validator, the two calls to *)
(* the external model (face analysis, shade matching), the normalisation   *)
(* of the model's JSON answer, and the two routes that persist the result. *)
(*                                                                         *)
(* Text is modelled as a sequence of one-character strings, so that        *)
(* str.strip, str.title, str.lower, the substring test and int(str) are    *)
(* computed and not assumed.  A JSON value is a record [t, i, s]: its      *)
(* type tag, its number (or length) and its characters.                    *)
(***************************************************************************)
EXTENDS Integers, Sequences, FiniteSets, TLC

VARIABLES pc, kind, req, mime, gateway_calls, reply, svc, analysis, match,
          resp, FALLBACK_ANALYSIS, user_profiles, recommendation_logs,
          pure_call

vars == <<pc, kind, req, mime, gateway_calls, reply, svc, analysis, match,
          resp, FALLBACK_ANALYSIS, user_profiles, recommendation_logs,
          pure_call>>

(***************************************************************************)
(* Bounds of the model.                                                    *)
(***************************************************************************)
\* Request slots (concurrent handler invocations) of the process.
NumCalls == 2
\* Longest product list of a recommendation request.
MaxProducts == 2
\* Number of signature chunks an image head is assembled from.
MaxChunks == 3
\* How far below 0 the enumerated integer scores reach (and, tenfold, how
\* far above 100).
ScoreMargin == 5
MaxHexLen == 7

Calls == 1 .. NumCalls

(***************************************************************************)
(* Text: Python str operations on sequences of characters.                 *)
(***************************************************************************)
LowerCase == <<"a","b","c","d","e","f","g","h","i","j","k","l","m",
               "n","o","p","q","r","s","t","u","v","w","x","y","z">>
UpperCase == <<"A","B","C","D","E","F","G","H","I","J","K","L","M",
               "N","O","P","Q","R","S","T","U","V","W","X","Y","Z">>
Digits == <<"0","1","2","3","4","5","6","7","8","9">>
Whitespace == {" ", "\t", "\n", "\r"}

IndexIn(ch, alphabet) ==
    IF \E k \in DOMAIN alphabet : alphabet[k] = ch
    THEN CHOOSE k \in DOMAIN alphabet : alphabet[k] = ch
    ELSE 0

IsCased(ch) == IndexIn(ch, LowerCase) > 0 \/ IndexIn(ch, UpperCase) > 0

ToLower(ch) ==
    IF IndexIn(ch, UpperCase) > 0 THEN LowerCase[IndexIn(ch, UpperCase)] ELSE ch

ToUpper(ch) ==
    IF IndexIn(ch, LowerCase) > 0 THEN UpperCase[IndexIn(ch, LowerCase)] ELSE ch

\* str.lower()
lower(s) == [k \in DOMAIN s |-> ToLower(s[k])]

\* str.upper()
upper(s) == [k \in DOMAIN s |-> ToUpper(s[k])]

\* str.title(): a cased character is upper-cased when it follows an uncased
\* character (or starts the string) and lower-cased otherwise.
title(s) ==
    [k \in DOMAIN s |->
        IF k > 1 /\ IsCased(s[k - 1]) THEN ToLower(s[k]) ELSE ToUpper(s[k])]

\* str.strip(): leading and trailing whitespace removed.
strip(s) ==
    LET keep == {k \in DOMAIN s : s[k] \notin Whitespace}
    IN  IF keep = {} THEN <<>>
        ELSE LET lo == CHOOSE k \in keep : \A j \in keep : k <= j
                 hi == CHOOSE k \in keep : \A j \in keep : j <= k
             IN  SubSeq(s, lo, hi)

\* needle in hay (substring test)
Contains(hay, needle) ==
    \E k \in 0 .. (Len(hay) - Len(needle)) :
        SubSeq(hay, k + 1, k + Len(needle)) = needle

\* str.startswith
startswith(s, prefix) ==
    Len(s) >= Len(prefix) /\ SubSeq(s, 1, Len(prefix)) = prefix

RECURSIVE DigitsValue(_)
DigitsValue(ds) ==
    IF ds = <<>> THEN 0
    ELSE 10 * DigitsValue(SubSeq(ds, 1, Len(ds) - 1))
         + (IndexIn(ds[Len(ds)], Digits) - 1)

(***************************************************************************)
(* JSON values (what json.loads yields) and Python's view of them.         *)
(***************************************************************************)
\* The key is not in the dict (dict.get gives None, dict[key] raises KeyError).
Absent == [t |-> "absent", i |-> 0, s |-> <<>>]
JNull == [t |-> "null", i |-> 0, s |-> <<>>]
JInt(n) == [t |-> "int", i |-> n, s |-> <<>>]
\* A JSON number with a fraction, held in tenths: JFloat10(857) is 85.7.
JFloat10(n) == [t |-> "float", i |-> n, s |-> <<>>]
JBool(b) == [t |-> "bool", i |-> IF b THEN 1 ELSE 0, s |-> <<>>]
JStr(chars) == [t |-> "str", i |-> 0, s |-> chars]
\* A JSON array of n elements (its elements are never read by the code).
JList(n) == [t |-> "list", i |-> n, s |-> <<>>]

\* dict.get(key): None for a missing key.
Get(d, key) == IF d[key] = Absent THEN JNull ELSE d[key]

\* dict.get(key, default)
GetDefault(d, key, default) == IF d[key] = Absent THEN default ELSE d[key]

\* bool(v): Python truthiness, as used by `v or ""`.
Truthy(v) ==
    CASE v.t = "null" -> FALSE
      [] v.t = "absent" -> FALSE
      [] v.t = "str" -> v.s # <<>>
      [] OTHER -> v.i # 0

\* `v or ""`
OrEmpty(v) == IF Truthy(v) THEN v ELSE JStr(<<>>)

\* Outcome of a Python expression or call: a value, or a raised exception
\* (with the HTTP status an HTTPException carries, else 0).
Return(v) == [ok |-> TRUE, exc |-> "", http |-> 0, val |-> v]
Raise(e, status) == [ok |-> FALSE, exc |-> e, http |-> status, val |-> JNull]

\* int(str): surrounding whitespace ignored, an optional sign, then decimal
\* digits; anything else is a ValueError.
IntOfStr(chars) ==
    LET body == strip(chars)
        signed == body # <<>> /\ body[1] \in {"+", "-"}
        ds == IF signed THEN Tail(body) ELSE body
    IN  IF ds # <<>> /\ \A k \in DOMAIN ds : IndexIn(ds[k], Digits) > 0
        THEN Return(IF signed /\ body[1] = "-"
                    THEN 0 - DigitsValue(ds) ELSE DigitsValue(ds))
        ELSE Raise("ValueError", 0)

\* int(v) for a JSON value v.
PyInt(v) ==
    CASE v.t = "int" -> Return(v.i)
      [] v.t = "bool" -> Return(v.i)
      [] v.t = "float" ->
            Return(IF v.i >= 0 THEN v.i \div 10 ELSE 0 - ((0 - v.i) \div 10))
      [] v.t = "str" -> IntOfStr(v.s)
      [] OTHER -> Raise("TypeError", 0)

Min(a, b) == IF a <= b THEN a ELSE b
Max(a, b) == IF a >= b THEN a ELSE b

(***************************************************************************)
(* Settings and HTTP status codes.                                         *)
(***************************************************************************)
MAX_IMAGE_SIZE_MB == 5
max_image_bytes == MAX_IMAGE_SIZE_MB * 1024 * 1024

HTTP_413_REQUEST_ENTITY_TOO_LARGE == 413
HTTP_415_UNSUPPORTED_MEDIA_TYPE == 415
HTTP_502_BAD_GATEWAY == 502
HTTP_500_INTERNAL_SERVER_ERROR == 500
HTTP_201_CREATED == 201
HTTP_200_OK == 200

(***************************************************************************)
(* Image validator.  An image is [head, rest]: its first bytes and the     *)
(* number of bytes after them; the validator reads at most the first 12    *)
(* bytes and the length, so rest > 0 only behind a head of 12 bytes or     *)
(* more.                                                                   *)
(***************************************************************************)
PrefixRead == 12

JPEG_SIG == <<255, 216, 255>>
PNG_SIG == <<137, 80, 78, 71, 13, 10, 26, 10>>
RIFF == <<82, 73, 70, 70>>
WEBP == <<87, 69, 66, 80>>
WAVE == <<87, 65, 86, 69>>

\* len(image_bytes)
ByteLen(image_bytes) == Len(image_bytes.head) + image_bytes.rest

\* image_bytes[:n], n <= PrefixRead
Slice(image_bytes, n) ==
    SubSeq(image_bytes.head, 1, Min(n, Len(image_bytes.head)))

_detect_mime(image_bytes) ==
    IF Slice(image_bytes, 3) = JPEG_SIG THEN "image/jpeg"
    ELSE IF Slice(image_bytes, 8) = PNG_SIG THEN "image/png"
    ELSE IF \/ Slice(image_bytes, 4) \in {RIFF, WEBP}
            \/ Contains(Slice(image_bytes, 12), WEBP) THEN "image/webp"
    ELSE "application/octet-stream"

_MIME_TO_PREFIX == {"image/jpeg", "image/jpg", "image/png", "image/webp"}

\* Variant: the type is checked before the size.
_validate_image_type_first(image_bytes) ==
    LET detected == _detect_mime(image_bytes)
    IN  IF detected \notin _MIME_TO_PREFIX
        THEN [ok |-> FALSE, exc |-> "HTTPException",
              http |-> HTTP_415_UNSUPPORTED_MEDIA_TYPE, val |-> ""]
        ELSE IF ByteLen(image_bytes) > max_image_bytes
        THEN [ok |-> FALSE, exc |-> "HTTPException",
              http |-> HTTP_413_REQUEST_ENTITY_TOO_LARGE, val |-> ""]
        ELSE [ok |-> TRUE, exc |-> "", http |-> 0, val |-> detected]

_validate_image(image_bytes) ==
    IF ByteLen(image_bytes) > max_image_bytes
    THEN [ok |-> FALSE, exc |-> "HTTPException",
          http |-> HTTP_413_REQUEST_ENTITY_TOO_LARGE, val |-> ""]
    ELSE LET detected == _detect_mime(image_bytes)
         IN  IF detected \notin _MIME_TO_PREFIX
             THEN [ok |-> FALSE, exc |-> "HTTPException",
                   http |-> HTTP_415_UNSUPPORTED_MEDIA_TYPE, val |-> ""]
             ELSE [ok |-> TRUE, exc |-> "", http |-> 0, val |-> detected]

(***************************************************************************)
(* Words of the domain, as characters.                                     *)
(***************************************************************************)
W_Fair == <<"F", "a", "i", "r">>
W_Light == <<"L", "i", "g", "h", "t">>
W_Medium == <<"M", "e", "d", "i", "u", "m">>
W_Tan == <<"T", "a", "n">>
W_Deep == <<"D", "e", "e", "p">>
W_Cool == <<"C", "o", "o", "l">>
W_Neutral == <<"N", "e", "u", "t", "r", "a", "l">>
W_Warm == <<"W", "a", "r", "m">>
W_Oval == <<"O", "v", "a", "l">>
W_Round == <<"R", "o", "u", "n", "d">>
W_Square == <<"S", "q", "u", "a", "r", "e">>
W_Heart == <<"H", "e", "a", "r", "t">>
W_Diamond == <<"D", "i", "a", "m", "o", "n", "d">>
W_Oblong == <<"O", "b", "l", "o", "n", "g">>
W_Unknown == <<"U", "n", "k", "n", "o", "w", "n">>

SKIN_TONES == {W_Fair, W_Light, W_Medium, W_Tan, W_Deep}
UNDERTONES == {W_Cool, W_Neutral, W_Warm}
FACE_SHAPES == {W_Oval, W_Round, W_Square, W_Heart, W_Diamond, W_Oblong}

(***************************************************************************)
(* The dicts json.loads yields: every key the code reads, and one it does  *)
(* not ("note"); a key that is not in the dict maps to Absent.             *)
(***************************************************************************)
AnalysisKeys ==
    {"skin_tone", "undertone", "face_shape", "eye_color", "confidence_score",
     "summary"}
MatchKeys == {"best_match_id", "match_score", "reasoning"}
Keys == AnalysisKeys \cup MatchKeys \cup {"note"}

EmptyDict == [k \in Keys |-> Absent]

\* The text of a chat completion: message.content is None ("none"), or a
\* string that is empty, not JSON ("garbage"), or JSON ("json") whose top
\* level value is of type top; obj is the dict when top = "object".
NoText == [form |-> "none", top |-> "", obj |-> EmptyDict]

\* What awaiting _client.chat.completions.create gives: OpenAIError raised,
\* or a response whose first choice holds text.
NoReply == [kind |-> "pending", text |-> NoText]
ProviderError == [kind |-> "OpenAIError", text |-> NoText]
Content(text) == [kind |-> "content", text |-> text]

\* json.loads(raw)
json_loads(raw) ==
    CASE raw.form = "none" -> Raise("TypeError", 0)
      [] raw.form = "json" -> [ok |-> TRUE, exc |-> "", http |-> 0, val |-> JNull]
      [] OTHER -> Raise("JSONDecodeError", 0)

\* json.dumps(value) of one value of a dict: a str is written as a string, an
\* int or float as a number, a bool as true or false, None as null and a list
\* as an array, each of which json.loads reads back as the same kind of value.
json_dumps_value(v) ==
    CASE v.t = "str" -> JStr(v.s)
      [] v.t = "int" -> JInt(v.i)
      [] v.t = "float" -> JFloat10(v.i)
      [] v.t = "bool" -> JBool(v.i # 0)
      [] v.t = "list" -> JList(v.i)
      [] v.t = "null" -> JNull
      [] OTHER -> Absent

\* json.dumps(record): the text of a JSON object with the keys of the dict.
json_dumps(record) ==
    [form |-> "json", top |-> "object",
     obj |-> [k \in DOMAIN record |-> json_dumps_value(record[k])]]

\* Variant: the except clause names OpenAIError only.
Caught_provider_only == {"OpenAIError"}

\* The exception classes both service functions catch; JSONDecodeError and
\* pydantic's ValidationError are ValueErrors.
Caught == {"OpenAIError", "JSONDecodeError", "KeyError", "ValueError",
           "ValidationError"}

(***************************************************************************)
(* Face analysis.                                                          *)
(***************************************************************************)
\* Variant: the candidates are tried in the opposite order.
ShapeCandidates_reversed ==
    <<lower(W_Oblong), lower(W_Diamond), lower(W_Heart), lower(W_Square),
      lower(W_Round), lower(W_Oval)>>

ShapeCandidates ==
    <<lower(W_Oval), lower(W_Round), lower(W_Square), lower(W_Heart),
      lower(W_Diamond), lower(W_Oblong)>>

\* Variant: the candidate found in the summary is returned as it was
\* searched for, in lower case.
_resolve_face_shape_untitled(result) ==
    LET field == OrEmpty(Get(result, "face_shape"))
    IN  IF field.t # "str" THEN Raise("AttributeError", 0)
        ELSE LET shape == title(strip(field.s))
             IN  IF shape \in FACE_SHAPES THEN Return(JStr(shape))
                 ELSE LET text == OrEmpty(Get(result, "summary"))
                      IN  IF text.t # "str" THEN Raise("AttributeError", 0)
                          ELSE LET summary == lower(text.s)
                                   hits == {k \in DOMAIN ShapeCandidates :
                                              Contains(summary, ShapeCandidates[k])}
                               IN  IF hits # {}
                                   THEN Return(JStr(ShapeCandidates[
                                            CHOOSE k \in hits :
                                                \A j \in hits : k <= j]))
                                   ELSE Return(JStr(W_Oval))

_resolve_face_shape(result) ==
    LET field == OrEmpty(Get(result, "face_shape"))
    IN  IF field.t # "str" THEN Raise("AttributeError", 0)
        ELSE LET shape == title(strip(field.s))
             IN  IF shape \in FACE_SHAPES THEN Return(JStr(shape))
                 ELSE LET text == OrEmpty(Get(result, "summary"))
                      IN  IF text.t # "str" THEN Raise("AttributeError", 0)
                          ELSE LET summary == lower(text.s)
                                   hits == {k \in DOMAIN ShapeCandidates :
                                              Contains(summary, ShapeCandidates[k])}
                               IN  IF hits # {}
                                   THEN Return(JStr(title(ShapeCandidates[
                                            CHOOSE k \in hits :
                                                \A j \in hits : k <= j])))
                                   ELSE Return(JStr(W_Oval))

\* Variant: the lower limit is forgotten.
Clamp_no_floor(v) == Min(100, v)

\* max(0, min(100, v))
Clamp(v) == Max(0, Min(100, v))

\* Lines 158-173 of analyze_face_image: parse and sanitise the text of the
\* response; the outcome is the dict returned, or the exception raised
\* inside the try block.
SanitiseAnalysis(raw) ==
    LET parsed == json_loads(raw)
    IN  IF ~parsed.ok THEN parsed
        ELSE IF raw.top # "object" THEN Raise("AttributeError", 0)
        ELSE LET result == raw.obj
                 shape == _resolve_face_shape(result)
             IN  IF ~shape.ok THEN shape
                 ELSE LET score == PyInt(GetDefault(result, "confidence_score",
                                                    JInt(0)))
                      IN  IF ~score.ok THEN score
                          ELSE Return(
                             [result EXCEPT
                                !["face_shape"] = shape.val,
                                !["confidence_score"] = JInt(Clamp(score.val)),
                                !["eye_color"] =
                                    IF @ = Absent THEN JStr(W_Unknown) ELSE @,
                                !["summary"] =
                                    IF @ = Absent THEN JStr(<<>>) ELSE @])

\* Initial value of the module-level dict _FALLBACK_ANALYSIS.
FallbackTemplate ==
    [k \in Keys |->
        CASE k = "skin_tone" -> JStr(W_Medium)
          [] k = "undertone" -> JStr(W_Neutral)
          [] k = "face_shape" -> JStr(W_Oval)
          [] k = "eye_color" -> JStr(W_Unknown)
          [] k = "confidence_score" -> JInt(0)
          [] k = "summary" ->
                JStr(<<"Analysis unavailable - please try again.">>)
          [] OTHER -> Absent]

\* f"Analysis error: {exc}"; the text of the exception is stood for by the
\* name of its class.
ErrorSummary(exc) == JStr(<<"Analysis error: ", exc>>)

\* The except clause of analyze_face_image: a copy of the template with the
\* summary replaced.
FallbackRecord(template, exc) ==
    [template EXCEPT !["summary"] = ErrorSummary(exc)]

\* Variant: the except clause writes the summary into the module-level dict
\* itself (fallback = _FALLBACK_ANALYSIS, no copy).
FallbackTemplateAfter_aliased(template, exc) ==
    [template EXCEPT !["summary"] = ErrorSummary(exc)]

\* _FALLBACK_ANALYSIS after the except clause: dict(_FALLBACK_ANALYSIS) is a
\* copy, so the assignment to fallback["summary"] leaves the template as it
\* was.
FallbackTemplateAfter(template, exc) == template

\* Variant: a failed gateway call is tried once more.
GatewayCallsOnResume_retry(outcome) ==
    IF outcome.kind = "OpenAIError" THEN 1 ELSE 0

\* The gateway calls issued after the awaited call has ended: neither the
\* rest of the try block nor the except clause of either service function
\* calls the gateway.
GatewayCallsOnResume(outcome) == 0

\* analyze_face_image from the point where the awaited gateway call ends
\* with `outcome`: the dict returned, or the exception that escapes.
analyze_face_image_resume(template, outcome) ==
    LET body == IF outcome.kind = "OpenAIError" THEN Raise("OpenAIError", 0)
                ELSE SanitiseAnalysis(outcome.text)
    IN  IF body.ok THEN body
        ELSE IF body.exc \in Caught
        THEN Return(FallbackRecord(template, body.exc))
        ELSE body

\* _FALLBACK_ANALYSIS once analyze_face_image has ended with `outcome`.
analyze_face_image_template(template, outcome) ==
    LET body == IF outcome.kind = "OpenAIError" THEN Raise("OpenAIError", 0)
                ELSE SanitiseAnalysis(outcome.text)
    IN  IF ~body.ok /\ body.exc \in Caught
        THEN FallbackTemplateAfter(template, body.exc)
        ELSE template

(***************************************************************************)
(* Shade matching.  A ProductShade is [id, name]; Optional[ProductShade]   *)
(* is a sequence of at most one product.                                   *)
(***************************************************************************)
\* {p.id for p in products}
valid_ids(products) == {products[k].id : k \in DOMAIN products}

\* next((p for p in products if p.id == id), None)
FirstWithId(products, id) ==
    LET hits == {k \in DOMAIN products : products[k].id = id}
    IN  IF hits = {} THEN <<>>
        ELSE <<products[CHOOSE k \in hits : \A j \in hits : k <= j]>>

\* Variant: the substitute is the last product's id.
ResolveBestMatchId_last(products, given) ==
    IF given.t = "str" /\ given.s \in valid_ids(products) THEN given
    ELSE JStr(products[Len(products)].id)

\* Lines 232-238: the id the model gave when it is one of the supplied ids,
\* else the id of the first product.
ResolveBestMatchId(products, given) ==
    IF given.t = "str" /\ given.s \in valid_ids(products) THEN given
    ELSE JStr(products[1].id)

\* MatchResult(...): pydantic's validation of the constructor's arguments.
\* best_match_id and reasoning must be str, match_score an int in 0..100.
MatchResult(best_match_id, match_score, reasoning, matched_product) ==
    IF \/ best_match_id.t # "str"
       \/ reasoning.t # "str"
       \/ match_score < 0
       \/ match_score > 100
    THEN Raise("ValidationError", 0)
    ELSE Return([best_match_id |-> best_match_id.s,
                 match_score |-> match_score,
                 reasoning |-> reasoning.s,
                 matched_product |-> matched_product])

NoMatchResult ==
    [best_match_id |-> <<>>, match_score |-> 0, reasoning |-> <<>>,
     matched_product |-> <<>>]

\* Lines 229-254 of get_shade_recommendation: the MatchResult returned, or
\* the exception raised inside the try block.
NormaliseMatch(products, raw) ==
    LET parsed == json_loads(raw)
    IN  IF ~parsed.ok THEN parsed
        ELSE IF raw.top # "object" THEN Raise("AttributeError", 0)
        ELSE LET data == raw.obj
                 given == Get(data, "best_match_id")
             IN  \* a list is unhashable: `in valid_ids` raises TypeError
                 IF given.t = "list" THEN Raise("TypeError", 0)
                 ELSE LET known == given.t = "str"
                                   /\ given.s \in valid_ids(products)
                      IN  IF ~known /\ products = <<>>
                          THEN Raise("IndexError", 0)
                          ELSE LET id == ResolveBestMatchId(products, given)
                                   matched == FirstWithId(products, id.s)
                                   score == PyInt(GetDefault(data, "match_score",
                                                             JInt(0)))
                               IN  IF ~score.ok THEN score
                                   ELSE MatchResult(
                                          id, Clamp(score.val),
                                          GetDefault(data, "reasoning",
                                                     JStr(<<>>)),
                                          matched)

\* Variant: a caught failure is answered with the first product.
get_shade_recommendation_defaulting(products, outcome) ==
    LET body == IF outcome.kind = "OpenAIError" THEN Raise("OpenAIError", 0)
                ELSE NormaliseMatch(products, outcome.text)
    IN  IF body.ok THEN body
        ELSE IF body.exc \in Caught /\ products # <<>>
        THEN MatchResult(JStr(products[1].id), 0, JStr(<<>>), <<products[1]>>)
        ELSE body

\* get_shade_recommendation from the point where the awaited gateway call
\* ends with `outcome`: the MatchResult returned, or the exception raised
\* (AIServiceError, HTTP 502, for the caught classes).
get_shade_recommendation_resume(products, outcome) ==
    LET body == IF outcome.kind = "OpenAIError" THEN Raise("OpenAIError", 0)
                ELSE NormaliseMatch(products, outcome.text)
    IN  IF body.ok THEN body
        ELSE IF body.exc \in Caught
        THEN Raise("AIServiceError", HTTP_502_BAD_GATEWAY)
        ELSE body

(***************************************************************************)
(* Routes: what follows the service call in analyze_skin and in            *)
(* recommend_product.  An exception that is no HTTPException reaches the   *)
(* global handler, which answers 500.                                      *)
(***************************************************************************)
StatusOf(raised) ==
    IF raised.http # 0 THEN raised.http ELSE HTTP_500_INTERNAL_SERVER_ERROR

\* UserProfile(...) and db.add/db.commit: ai_result["skin_tone"],
\* ["undertone"] and ["face_shape"] raise KeyError for a missing key; the
\* columns are NOT NULL, those with a default take it for None; a value
\* that is no scalar cannot be bound.
analyze_skin_resume(user_id, table, outcome) ==
    IF ~outcome.ok
    THEN [http |-> StatusOf(outcome), exc |-> outcome.exc, rows |-> <<>>]
    ELSE LET ai_result == outcome.val
             required == {"skin_tone", "undertone", "face_shape"}
             eye_color == GetDefault(ai_result, "eye_color", JStr(W_Unknown))
             confidence_score ==
                 GetDefault(ai_result, "confidence_score", JInt(0))
             summary == GetDefault(ai_result, "summary", JStr(<<>>))
             profile ==
                 [id |-> Len(table) + 1,
                  user_id |-> user_id,
                  skin_tone |-> ai_result["skin_tone"],
                  undertone |-> ai_result["undertone"],
                  face_shape |-> ai_result["face_shape"],
                  eye_color |->
                      IF eye_color = JNull THEN JStr(W_Unknown) ELSE eye_color,
                  confidence_score |->
                      IF confidence_score = JNull THEN JInt(0)
                      ELSE confidence_score,
                  summary |-> IF summary = JNull THEN JStr(<<>>) ELSE summary]
             columns == {profile.skin_tone, profile.undertone,
                         profile.face_shape, profile.eye_color,
                         profile.confidence_score, profile.summary}
         IN  IF \E k \in required : ai_result[k] = Absent
             THEN [http |-> HTTP_500_INTERNAL_SERVER_ERROR, exc |-> "KeyError",
                   rows |-> <<>>]
             ELSE IF \E k \in required : ai_result[k] = JNull
             THEN [http |-> HTTP_500_INTERNAL_SERVER_ERROR,
                   exc |-> "IntegrityError", rows |-> <<>>]
             ELSE IF \E v \in columns : v.t = "list"
             THEN [http |-> HTTP_500_INTERNAL_SERVER_ERROR,
                   exc |-> "InterfaceError", rows |-> <<>>]
             ELSE [http |-> HTTP_201_CREATED, exc |-> "", rows |-> <<profile>>]

\* Variant: the row is written whether or not the request carries a user_id.
recommend_product_resume_always_logs(request, table, outcome) ==
    IF ~outcome.ok
    THEN [http |-> StatusOf(outcome), exc |-> outcome.exc, rows |-> <<>>]
    ELSE LET result == outcome.val
             log_entry ==
                 [id |-> Len(table) + 1,
                  user_id |-> request.user_id.s,
                  best_match_product_id |-> result.best_match_id,
                  match_score |-> result.match_score,
                  reasoning |-> result.reasoning,
                  skin_tone |-> request.user_profile.skin_tone,
                  undertone |-> request.user_profile.undertone,
                  eye_color |-> request.user_profile.eye_color]
         IN  [http |-> HTTP_200_OK, exc |-> "", rows |-> <<log_entry>>]

\* The RecommendationLog row of recommend_product, written when user_id is
\* truthy.
recommend_product_resume(request, table, outcome) ==
    IF ~outcome.ok
    THEN [http |-> StatusOf(outcome), exc |-> outcome.exc, rows |-> <<>>]
    ELSE LET result == outcome.val
             log_entry ==
                 [id |-> Len(table) + 1,
                  user_id |-> request.user_id.s,
                  best_match_product_id |-> result.best_match_id,
                  match_score |-> result.match_score,
                  reasoning |-> result.reasoning,
                  skin_tone |-> request.user_profile.skin_tone,
                  undertone |-> request.user_profile.undertone,
                  eye_color |-> request.user_profile.eye_color]
         IN  [http |-> HTTP_200_OK, exc |-> "",
              rows |-> IF Truthy(request.user_id) THEN <<log_entry>> ELSE <<>>]

\* Variant: the request to the gateway is issued before the image is
\* validated.
analyze_face_image_call_first(image_bytes) ==
    LET valid == _validate_image(image_bytes)
    IN  [raised |-> ~valid.ok, exc |-> valid.exc, http |-> valid.http,
         mime |-> valid.val, calls |-> 1]

\* analyze_face_image up to its await: the image is validated, and only
\* then is the request to the gateway issued.
analyze_face_image_start(image_bytes) ==
    LET valid == _validate_image(image_bytes)
    IN  [raised |-> ~valid.ok, exc |-> valid.exc, http |-> valid.http,
         mime |-> valid.val, calls |-> IF valid.ok THEN 1 ELSE 0]

PURPLE == <<"P", "u", "r", "p", "l", "e">>
OLIVE == <<"o", "l", "i", "v", "e">>
HEXAGON == <<"H", "e", "x", "a", "g", "o", "n">>
HAZEL == <<"H", "a", "z", "e", "l">>
SQUARE_PADDED == <<" ", "s", "Q", "U", "A", "R", "E", " ">>
ROUND_FACE == <<"H", "e", "r", " ", "r", "o", "u", "n", "d", " ", "f", "a", "c", "e">>
SQUARE_OVAL == <<"s", "q", "u", "a", "r", "e", ",", " ", "n", "o", "t", " ", "o", "v", "a", "l">>
GUEST == <<"g", "u", "e", "s", "t">>

(***************************************************************************)
(* Inputs.                                                                 *)
(***************************************************************************)
Z4 == <<0, 0, 0, 0>>
Z5 == <<0, 0, 0, 0, 0>>

Chunks ==
    {JPEG_SIG, SubSeq(JPEG_SIG, 1, 2), PNG_SIG, SubSeq(PNG_SIG, 1, 7), RIFF,
     WEBP, WAVE, Z4, Z5}

RECURSIVE Heads(_)
Heads(n) ==
    IF n = 0 THEN {<<>>}
    ELSE Heads(n - 1) \cup {h \o c : h \in Heads(n - 1), c \in Chunks}

\* The lengths tried behind a head: nothing more, or up to one byte under,
\* exactly at and one byte over the ceiling.
Rests(head) ==
    IF Len(head) < PrefixRead THEN {0}
    ELSE {0} \cup {max_image_bytes - Len(head) + d : d \in {-1, 0, 1}}

AllImages ==
    UNION {{[head |-> h, rest |-> r] : r \in Rests(h)} : h \in Heads(MaxChunks)}

NoImage == [head |-> <<>>, rest |-> 0]

SomeImages ==
    {[head |-> JPEG_SIG \o Z4, rest |-> 0],
     [head |-> PNG_SIG \o Z4, rest |-> max_image_bytes - 11],
     [head |-> Z4, rest |-> 0]}

ScoreInts ==
    {0 - ScoreMargin, -1, 0, 1, 85, 100, 101, 100 + 10 * ScoreMargin}

ScoreValues ==
    {Absent, JNull, JStr(<<"8", "5">>), JStr(<<"a", "b", "c">>), JFloat10(857),
     JList(1), JBool(TRUE)} \cup {JInt(n) : n \in ScoreInts}

AnalysisObjects ==
    {[k \in Keys |->
        CASE k = "skin_tone" -> tone
          [] k = "undertone" -> under
          [] k = "face_shape" -> shape
          [] k = "eye_color" -> eye
          [] k = "confidence_score" -> score
          [] k = "summary" -> summary
          [] k = "note" -> note
          [] OTHER -> Absent] :
     tone \in {Absent, JNull, JStr(W_Tan), JStr(PURPLE)},
     under \in {Absent, JStr(W_Warm), JStr(OLIVE)},
     shape \in {Absent, JNull, JStr(W_Round), JStr(SQUARE_PADDED),
                JStr(HEXAGON), JInt(5)},
     eye \in {Absent, JNull, JStr(HAZEL)},
     score \in ScoreValues,
     summary \in {Absent, JNull, JStr(<<>>), JStr(ROUND_FACE),
                  JStr(SQUARE_OVAL), JList(1)},
     note \in {Absent, JStr(<<"x">>)}}

JsonObject(obj) == [form |-> "json", top |-> "object", obj |-> obj]

\* Texts that are no JSON object: no content, empty, not JSON, and JSON
\* whose top level value is an array, a string, a number or null.
OtherTexts ==
    {NoText,
     [form |-> "empty", top |-> "", obj |-> EmptyDict],
     [form |-> "garbage", top |-> "", obj |-> EmptyDict]}
    \cup {[form |-> "json", top |-> t, obj |-> EmptyDict] :
            t \in {"array", "string", "number", "null"}}

AnalysisOutcomes ==
    {ProviderError} \cup {Content(t) : t \in OtherTexts}
    \cup {Content(JsonObject(o)) : o \in AnalysisObjects}

\* Coarse gateway outcomes, for the specification that explores images.
FewAnalysisOutcomes ==
    {ProviderError,
     Content([form |-> "garbage", top |-> "", obj |-> EmptyDict]),
     Content(JsonObject([EmptyDict EXCEPT
                            !["skin_tone"] = JStr(W_Tan),
                            !["undertone"] = JStr(W_Warm),
                            !["face_shape"] = JStr(W_Round),
                            !["confidence_score"] = JInt(85)]))}

P1 == <<"p", "1">>
P2 == <<"p", "2">>
P9 == <<"p", "9">>

ProductPool ==
    {[id |-> P1, name |-> "Peachy Blush"],
     [id |-> P1, name |-> "Rose Tint"],
     [id |-> P2, name |-> "Coral Glow"]}

ProductLists == UNION {[1 .. n -> ProductPool] : n \in 1 .. MaxProducts}

NoProfile == [skin_tone |-> <<>>, undertone |-> <<>>, eye_color |-> <<>>]

Profiles == {[skin_tone |-> W_Tan, undertone |-> W_Warm, eye_color |-> HAZEL]}

\* RecommendationRequest.user_id: None, empty, or an identifier.
RequestUserIds == {JNull, JStr(<<>>), JStr(<<"u", "1">>)}

MatchObjects ==
    {[k \in Keys |->
        CASE k = "best_match_id" -> id
          [] k = "match_score" -> score
          [] k = "reasoning" -> reasoning
          [] OTHER -> Absent] :
     id \in {Absent, JNull, JStr(P1), JStr(P2), JStr(P9), JInt(7), JList(1)},
     score \in ScoreValues,
     reasoning \in {Absent, JNull, JStr(<<"w", "a", "r", "m">>)}}

MatchOutcomes ==
    {ProviderError} \cup {Content(t) : t \in OtherTexts}
    \cup {Content(JsonObject(o)) : o \in MatchObjects}

NoRequest ==
    [user_id |-> JNull, image_bytes |-> NoImage, products |-> <<>>,
     user_profile |-> NoProfile]

NoOutcome == [status |-> "none", exc |-> "", http |-> 0]

NoResponse == [http |-> 0, exc |-> ""]

NoPureCall == [fn |-> "none"]

(***************************************************************************)
(* State.                                                                  *)
(*   pc[c]            where handler invocation c is: "idle" (not started), *)
(*                    "awaiting" (suspended at the gateway call), "done"   *)
(*   kind[c]          the route it serves                                  *)
(*   req[c]           its request                                          *)
(*   mime[c]          the MIME type _validate_image returned to it         *)
(*   gateway_calls[c] the calls it has issued to the external model        *)
(*   reply[c]         what its gateway call ended with                     *)
(*   svc[c]           how its service function ended                       *)
(*   analysis[c]      the dict analyze_face_image returned                 *)
(*   match[c]         the MatchResult get_shade_recommendation returned    *)
(*   resp[c]          the HTTP response of the route                       *)
(*   FALLBACK_ANALYSIS    the module-level dict _FALLBACK_ANALYSIS         *)
(*   user_profiles, recommendation_logs    the two tables                  *)
(*   pure_call        a call of one function on its own: its argument and  *)
(*                    what it returned (used by the specifications that    *)
(*                    explore a single function)                           *)
(***************************************************************************)
InitProgram ==
    /\ pc = [c \in Calls |-> "idle"]
    /\ kind = [c \in Calls |-> "none"]
    /\ req = [c \in Calls |-> NoRequest]
    /\ mime = [c \in Calls |-> ""]
    /\ gateway_calls = [c \in Calls |-> 0]
    /\ reply = [c \in Calls |-> NoReply]
    /\ svc = [c \in Calls |-> NoOutcome]
    /\ analysis = [c \in Calls |-> EmptyDict]
    /\ match = [c \in Calls |-> NoMatchResult]
    /\ resp = [c \in Calls |-> NoResponse]
    /\ FALLBACK_ANALYSIS = FallbackTemplate
    /\ user_profiles = <<>>
    /\ recommendation_logs = <<>>

Init == InitProgram /\ pure_call = NoPureCall

Outcome(r) ==
    [status |-> IF r.ok THEN "returned" ELSE "raised", exc |-> r.exc,
     http |-> r.http]

\* POST /analyze up to the await of the gateway call.
AnalyzeSkin(c, images) ==
    /\ pc[c] = "idle"
    /\ \E image_bytes \in images :
         LET started == analyze_face_image_start(image_bytes)
         IN  /\ kind' = [kind EXCEPT ![c] = "analyze_skin"]
             /\ req' = [req EXCEPT ![c] =
                          [NoRequest EXCEPT !.user_id = JStr(GUEST),
                                            !.image_bytes = image_bytes]]
             /\ mime' = [mime EXCEPT ![c] = started.mime]
             /\ gateway_calls' =
                    [gateway_calls EXCEPT ![c] = @ + started.calls]
             /\ IF started.raised
                THEN /\ pc' = [pc EXCEPT ![c] = "done"]
                     /\ svc' = [svc EXCEPT ![c] =
                                  [status |-> "raised", exc |-> started.exc,
                                   http |-> started.http]]
                     /\ resp' = [resp EXCEPT ![c] =
                                   [http |-> started.http,
                                    exc |-> started.exc]]
                ELSE /\ pc' = [pc EXCEPT ![c] = "awaiting"]
                     /\ UNCHANGED <<svc, resp>>
    /\ UNCHANGED <<reply, analysis, match, FALLBACK_ANALYSIS, user_profiles,
                   recommendation_logs, pure_call>>

\* POST /analyze from the end of the gateway call: the rest of
\* analyze_face_image, then the rest of analyze_skin.
GatewayReturnsAnalysis(c, outcomes) ==
    /\ pc[c] = "awaiting"
    /\ kind[c] = "analyze_skin"
    /\ \E outcome \in outcomes :
         LET r == analyze_face_image_resume(FALLBACK_ANALYSIS, outcome)
             route == analyze_skin_resume(req[c].user_id, user_profiles, r)
         IN  /\ reply' = [reply EXCEPT ![c] = outcome]
             /\ svc' = [svc EXCEPT ![c] = Outcome(r)]
             /\ analysis' = [analysis EXCEPT ![c] =
                               IF r.ok THEN r.val ELSE EmptyDict]
             /\ user_profiles' = user_profiles \o route.rows
             /\ resp' = [resp EXCEPT ![c] =
                           [http |-> route.http, exc |-> route.exc]]
             /\ gateway_calls' = [gateway_calls EXCEPT ![c] =
                                    @ + GatewayCallsOnResume(outcome)]
             /\ FALLBACK_ANALYSIS' =
                    analyze_face_image_template(FALLBACK_ANALYSIS, outcome)
    /\ pc' = [pc EXCEPT ![c] = "done"]
    /\ UNCHANGED <<kind, req, mime, match, recommendation_logs, pure_call>>

\* The validated bodies of POST /recommend.
RecommendationRequests ==
    {[user_id |-> user_id, image_bytes |-> NoImage, products |-> products,
      user_profile |-> user_profile] :
     products \in ProductLists, user_id \in RequestUserIds,
     user_profile \in Profiles}

\* POST /recommend with a body out of `requests`, up to the await of the
\* gateway call.
SubmitRecommendation(c, requests) ==
    /\ pc[c] = "idle"
    /\ \E request \in requests : req' = [req EXCEPT ![c] = request]
    /\ kind' = [kind EXCEPT ![c] = "recommend_product"]
    /\ gateway_calls' = [gateway_calls EXCEPT ![c] = @ + 1]
    /\ pc' = [pc EXCEPT ![c] = "awaiting"]
    /\ UNCHANGED <<mime, reply, svc, analysis, match, resp, FALLBACK_ANALYSIS,
                   user_profiles, recommendation_logs, pure_call>>

\* POST /recommend up to the await of the gateway call.
RecommendProduct(c) == SubmitRecommendation(c, RecommendationRequests)

\* POST /recommend from the end of the gateway call: the rest of
\* get_shade_recommendation, then the rest of recommend_product.
GatewayReturnsMatch(c, outcomes) ==
    /\ pc[c] = "awaiting"
    /\ kind[c] = "recommend_product"
    /\ \E outcome \in outcomes :
         LET r == get_shade_recommendation_resume(req[c].products, outcome)
             route == recommend_product_resume(req[c], recommendation_logs, r)
         IN  /\ reply' = [reply EXCEPT ![c] = outcome]
             /\ svc' = [svc EXCEPT ![c] = Outcome(r)]
             /\ match' = [match EXCEPT ![c] =
                            IF r.ok THEN r.val ELSE NoMatchResult]
             /\ recommendation_logs' = recommendation_logs \o route.rows
             /\ resp' = [resp EXCEPT ![c] =
                           [http |-> route.http, exc |-> route.exc]]
             /\ gateway_calls' = [gateway_calls EXCEPT ![c] =
                                    @ + GatewayCallsOnResume(outcome)]
    /\ pc' = [pc EXCEPT ![c] = "done"]
    /\ UNCHANGED <<kind, req, mime, analysis, FALLBACK_ANALYSIS,
                   user_profiles, pure_call>>

\* No other handler invocation has started: one request is served.
Alone(c) == \A d \in Calls \ {c} : pc[d] = "idle"

\* One request, any response of the model.
Next ==
    \/ \E c \in Calls : Alone(c) /\ AnalyzeSkin(c, SomeImages)
    \/ \E c \in Calls : Alone(c) /\ GatewayReturnsAnalysis(c, AnalysisOutcomes)
    \/ \E c \in Calls : Alone(c) /\ RecommendProduct(c)
    \/ \E c \in Calls : Alone(c) /\ GatewayReturnsMatch(c, MatchOutcomes)

Spec == Init /\ [][Next]_vars

\* One analysis request, any image.
NextImage ==
    \/ \E c \in Calls : Alone(c) /\ AnalyzeSkin(c, AllImages)
    \/ \E c \in Calls : Alone(c) /\ GatewayReturnsAnalysis(c, FewAnalysisOutcomes)

SpecImage == Init /\ [][NextImage]_vars

(***************************************************************************)
(* Concurrent requests: the handlers are coroutines on one event loop, so  *)
(* a request runs from one await to the next without interruption and any  *)
(* number of requests may be suspended at the gateway call at once.        *)
(***************************************************************************)
ConcurrentImages ==
    {[head |-> JPEG_SIG \o Z4, rest |-> 0], [head |-> Z4, rest |-> 0]}

ConcurrentAnalysisOutcomes == FewAnalysisOutcomes \cup {Content(NoText)}

ConcurrentRequests ==
    {r \in RecommendationRequests :
        /\ r.user_id \in {JNull, JStr(<<"u", "1">>)}
        /\ \A k \in DOMAIN r.products : r.products[k].name = "Coral Glow"}

WARM == <<"w", "a", "r", "m">>

ConcurrentMatchOutcomes ==
    {ProviderError,
     Content([form |-> "garbage", top |-> "", obj |-> EmptyDict])}
    \cup {Content(JsonObject([EmptyDict EXCEPT
                                 !["best_match_id"] = JStr(id),
                                 !["match_score"] = score,
                                 !["reasoning"] = JStr(WARM)])) :
            id \in {P2, P9}, score \in {JInt(80), JNull}}

NextConcurrent ==
    \/ \E c \in Calls : AnalyzeSkin(c, ConcurrentImages)
    \/ \E c \in Calls : GatewayReturnsAnalysis(c, ConcurrentAnalysisOutcomes)
    \/ \E c \in Calls : SubmitRecommendation(c, ConcurrentRequests)
    \/ \E c \in Calls : GatewayReturnsMatch(c, ConcurrentMatchOutcomes)

SpecConcurrent == Init /\ [][NextConcurrent]_vars

(***************************************************************************)
(* _resolve_face_shape on its own: every pair of a face_shape and a        *)
(* summary out of the sets below, in a response that has no other field.   *)
(***************************************************************************)
OVAL_UPPER == upper(W_Oval)
HEART_SHAPED == <<"h", "e", "a", "r", "t", "-", "s", "h", "a", "p", "e", "d">>
DIAMOND_UPPER == <<"A", " ", "D", "I", "A", "M", "O", "N", "D", ".">>
OBLONG_HEART == <<"o", "b", "l", "o", "n", "g", " ", "o", "r", " ", "h", "e", "a", "r", "t">>

FaceShapeValues ==
    {Absent, JNull, JStr(<<>>), JStr(W_Round), JStr(SQUARE_PADDED),
     JStr(OVAL_UPPER), JStr(HEXAGON), JStr(HEART_SHAPED), JInt(0), JInt(5)}

SummaryValues ==
    {Absent, JNull, JStr(<<>>), JStr(ROUND_FACE), JStr(SQUARE_OVAL),
     JStr(DIAMOND_UPPER), JStr(OBLONG_HEART), JStr(GUEST), JList(1)}

ShapeResponses ==
    {[EmptyDict EXCEPT !["face_shape"] = f, !["summary"] = t] :
     f \in FaceShapeValues, t \in SummaryValues}

NotReturned == [ok |-> FALSE, exc |-> "", http |-> 0, val |-> JNull]

InitShape ==
    /\ InitProgram
    /\ pure_call \in {[fn |-> "_resolve_face_shape", arg |-> result,
                        done |-> FALSE, ret |-> NotReturned] :
                       result \in ShapeResponses}

ResolveFaceShape ==
    /\ pure_call.fn = "_resolve_face_shape"
    /\ ~pure_call.done
    /\ pure_call' = [pure_call EXCEPT !.done = TRUE,
                                      !.ret = _resolve_face_shape(pure_call.arg)]
    /\ UNCHANGED <<pc, kind, req, mime, gateway_calls, reply, svc, analysis,
                   match, resp, FALLBACK_ANALYSIS, user_profiles,
                   recommendation_logs>>

NextShape == ResolveFaceShape

SpecShape == InitShape /\ [][NextShape]_vars

(***************************************************************************)
(* The normalisation of analyze_face_image on its own: a gateway outcome   *)
(* is normalised, and the record that comes back is written as JSON and    *)
(* normalised once more.                                                   *)
(***************************************************************************)
InitAgain ==
    /\ InitProgram
    /\ pure_call \in {[fn |-> "analyze_face_image", arg |-> outcome,
                        done |-> FALSE, ret |-> NotReturned,
                        redone |-> FALSE, again |-> NotReturned] :
                       outcome \in AnalysisOutcomes}

Normalise ==
    /\ pure_call.fn = "analyze_face_image"
    /\ ~pure_call.done
    /\ pure_call' = [pure_call EXCEPT
                        !.done = TRUE,
                        !.ret = analyze_face_image_resume(FALLBACK_ANALYSIS,
                                                          pure_call.arg)]
    /\ UNCHANGED <<pc, kind, req, mime, gateway_calls, reply, svc, analysis,
                   match, resp, FALLBACK_ANALYSIS, user_profiles,
                   recommendation_logs>>

NormaliseAgain ==
    /\ pure_call.fn = "analyze_face_image"
    /\ pure_call.done
    /\ pure_call.ret.ok
    /\ ~pure_call.redone
    /\ pure_call' = [pure_call EXCEPT
                        !.redone = TRUE,
                        !.again = analyze_face_image_resume(
                                     FALLBACK_ANALYSIS,
                                     Content(json_dumps(pure_call.ret.val)))]
    /\ UNCHANGED <<pc, kind, req, mime, gateway_calls, reply, svc, analysis,
                   match, resp, FALLBACK_ANALYSIS, user_profiles,
                   recommendation_logs>>

NextAgain ==
    \/ Normalise
    \/ NormaliseAgain

SpecAgain == InitAgain /\ [][NextAgain]_vars

(***************************************************************************)
(* ProductShade.validate_hex on its own: every string of at most MaxHexLen *)
(* characters out of HexAlphabet.                                          *)
(***************************************************************************)
\* ProductShade.validate_hex(v): the stored value, or ValueError.
validate_hex(v) ==
    LET stripped == strip(v)
    IN  IF ~startswith(stripped, <<"#">>) \/ Len(stripped) \notin {4, 7}
        THEN Raise("ValueError", 0)
        ELSE Return(JStr(upper(stripped)))

HexAlphabet == {"#", "a", "1", "G", " "}

HexStrings == UNION {[1 .. n -> HexAlphabet] : n \in 0 .. MaxHexLen}

InitHex ==
    /\ InitProgram
    /\ pure_call \in {[fn |-> "validate_hex", arg |-> v, done |-> FALSE,
                        ret |-> NotReturned] : v \in HexStrings}

ValidateHex ==
    /\ pure_call.fn = "validate_hex"
    /\ ~pure_call.done
    /\ pure_call' = [pure_call EXCEPT !.done = TRUE,
                                      !.ret = validate_hex(pure_call.arg)]
    /\ UNCHANGED <<pc, kind, req, mime, gateway_calls, reply, svc, analysis,
                   match, resp, FALLBACK_ANALYSIS, user_profiles,
                   recommendation_logs>>

NextHex == ValidateHex

SpecHex == InitHex /\ [][NextHex]_vars

(***************************************************************************)
(* Properties.                                                             *)
(***************************************************************************)
\* The gateway call of an analysis request has ended (so its image had
\* passed validation) and the handler has run to its end.
Analysed(c) ==
    kind[c] = "analyze_skin" /\ pc[c] = "done" /\ reply[c].kind # "pending"

\* The gateway call of a recommendation request has ended.
Matched(c) ==
    kind[c] = "recommend_product" /\ pc[c] = "done"

\* The gateway failed, or its text is not JSON.
FailedOrUnparseable(outcome) ==
    \/ outcome.kind = "OpenAIError"
    \/ outcome.kind = "content" /\ outcome.text.form \in {"empty", "garbage"}

IsWord(v, words) == v.t = "str" /\ v.s \in words

\* C1: once validation has passed, analyze_face_image returns a record with
\* every one of its six fields present and not null, and raises nothing,
\* whatever the gateway call ends with: a provider error, or a text that is
\* empty, not JSON, JSON that is no object, or any JSON object.
C1_AnalysisNeverRaises ==
    \A c \in Calls :
        (Analysed(c) /\ ~(reply[c].kind = "content"
                          /\ reply[c].text.form = "none"))
        => /\ svc[c].status = "returned"
           /\ \A k \in AnalysisKeys : analysis[c][k].t \notin {"absent", "null"}

\* C2: every record analyze_face_image returns, and every row of
\* user_profiles, has skin_tone, undertone and face_shape in their enums.
C2_EnumFieldsValid ==
    /\ \A c \in Calls :
        (kind[c] = "analyze_skin" /\ svc[c].status = "returned")
        => /\ IsWord(analysis[c]["skin_tone"], SKIN_TONES)
           /\ IsWord(analysis[c]["undertone"], UNDERTONES)
           /\ IsWord(analysis[c]["face_shape"], FACE_SHAPES)
    /\ \A n \in DOMAIN user_profiles :
        /\ IsWord(user_profiles[n].skin_tone, SKIN_TONES)
        /\ IsWord(user_profiles[n].undertone, UNDERTONES)
        /\ IsWord(user_profiles[n].face_shape, FACE_SHAPES)

\* C3: when the gateway call of an analysis fails, or its text is not JSON,
\* analyze_face_image returns Medium / Neutral / Oval / Unknown / 0 with a
\* summary that names the error, and the route answers 201.
C3_AnalysisFailuresAbsorbed ==
    \A c \in Calls :
        (Analysed(c) /\ FailedOrUnparseable(reply[c]))
        => /\ svc[c].status = "returned"
           /\ resp[c].http = HTTP_201_CREATED
           /\ analysis[c]["skin_tone"] = JStr(W_Medium)
           /\ analysis[c]["undertone"] = JStr(W_Neutral)
           /\ analysis[c]["face_shape"] = JStr(W_Oval)
           /\ analysis[c]["eye_color"] = JStr(W_Unknown)
           /\ analysis[c]["confidence_score"] = JInt(0)
           /\ analysis[c]["summary"] =
                JStr(<<"Analysis error: ",
                       IF reply[c].kind = "OpenAIError" THEN "OpenAIError"
                       ELSE "JSONDecodeError">>)

C3_Witness ==
    \E c \in Calls :
        /\ Analysed(c)
        /\ reply[c].kind = "content"
        /\ reply[c].text.form = "garbage"
        /\ svc[c].status = "returned"
        /\ analysis[c]["confidence_score"] = JInt(0)

\* C4: when the gateway call of a recommendation fails, or its text is not
\* JSON, get_shade_recommendation returns no MatchResult and raises
\* AIServiceError, and the route answers 502, for every product list.
C4_MatchFailuresSurface ==
    \A c \in Calls :
        (Matched(c) /\ FailedOrUnparseable(reply[c]))
        => /\ svc[c] = [status |-> "raised", exc |-> "AIServiceError",
                        http |-> 502]
           /\ match[c] = NoMatchResult
           /\ resp[c].http = 502

C4_Witness ==
    \E c \in Calls :
        /\ Matched(c)
        /\ reply[c].kind = "OpenAIError"
        /\ Len(req[c].products) > 1
        /\ svc[c].exc = "AIServiceError"

\* C5: an analysis request whose image fails validation has issued no call
\* to the gateway, and is answered with the validation error; a request
\* that has issued a call holds an image that passes validation.
C5_ValidationBeforeGateway ==
    \A c \in Calls :
        kind[c] = "analyze_skin"
        => LET valid == _validate_image(req[c].image_bytes)
           IN  /\ ~valid.ok => /\ gateway_calls[c] = 0
                               /\ pc[c] = "done"
                               /\ svc[c].status = "raised"
                               /\ resp[c].http = valid.http
               /\ gateway_calls[c] > 0 => valid.ok

C5_Witness ==
    \E c \in Calls :
        /\ kind[c] = "analyze_skin"
        /\ pc[c] = "done"
        /\ resp[c].http \in {413, 415}
        /\ gateway_calls[c] = 0

\* C6: an image longer than MAX_IMAGE_SIZE_MB * 1024 * 1024 bytes is
\* answered 413 whatever its first bytes are; one of exactly that length is
\* not answered 413.
C6_TooLargeWhateverTheContent ==
    \A c \in Calls :
        kind[c] = "analyze_skin"
        => LET size == ByteLen(req[c].image_bytes)
           IN  /\ size > 5 * 1024 * 1024
                    => /\ svc[c].status = "raised"
                       /\ svc[c].http = 413
                       /\ resp[c].http = 413
               /\ size = 5 * 1024 * 1024 => resp[c].http # 413

C6_Witness ==
    \E c \in Calls :
        /\ kind[c] = "analyze_skin"
        /\ ByteLen(req[c].image_bytes) > 5 * 1024 * 1024
        /\ SubSeq(req[c].image_bytes.head, 1, 4) = WAVE
        /\ resp[c].http = 413

\* The type the signature rules of C7 give: JPEG for FF D8 FF, PNG for the
\* 8-byte PNG signature, WebP for RIFF with WEBP in the first 12 bytes, and
\* no type otherwise.
TypeBySignature(image_bytes) ==
    LET head == image_bytes.head
    IN  IF startswith(head, <<255, 216, 255>>) THEN "image/jpeg"
        ELSE IF startswith(head, <<137, 80, 78, 71, 13, 10, 26, 10>>)
        THEN "image/png"
        ELSE IF /\ startswith(head, <<82, 73, 70, 70>>)
                /\ Contains(SubSeq(head, 1, Min(12, Len(head))),
                            <<87, 69, 66, 80>>)
        THEN "image/webp"
        ELSE "none"

\* C7: an image within the size ceiling that starts with a JPEG or PNG
\* signature, or is a RIFF container with WEBP in its first 12 bytes, is
\* accepted with that type; every other image is answered 415.
C7_SignatureDecidesType ==
    \A c \in Calls :
        (kind[c] = "analyze_skin"
         /\ ByteLen(req[c].image_bytes) <= max_image_bytes)
        => LET type == TypeBySignature(req[c].image_bytes)
           IN  IF type = "none"
               THEN resp[c].http = 415 /\ gateway_calls[c] = 0
               ELSE mime[c] = type /\ gateway_calls[c] = 1

\* A JSON object whose best_match_id is a string, null or missing, whose
\* match_score is an integer and whose reasoning is a string or missing.
WellFormedMatch(outcome) ==
    /\ outcome.kind = "content"
    /\ outcome.text.form = "json"
    /\ outcome.text.top = "object"
    /\ outcome.text.obj["best_match_id"].t \in {"str", "null", "absent"}
    /\ outcome.text.obj["match_score"].t = "int"
    /\ outcome.text.obj["reasoning"].t \in {"str", "absent"}

\* C8: for a well-formed response, best_match_id is the model's id when it
\* is one of the supplied ids and the first product's id otherwise;
\* matched_product is present, is a product of the list with that id, and
\* is the first product in the fallback case.
C8_MatchIdResolved ==
    \A c \in Calls :
        (Matched(c) /\ WellFormedMatch(reply[c]))
        => LET products == req[c].products
               given == reply[c].text.obj["best_match_id"]
               ids == {products[n].id : n \in DOMAIN products}
               known == given.t = "str" /\ given.s \in ids
           IN  /\ svc[c].status = "returned"
               /\ match[c].best_match_id =
                    (IF known THEN given.s ELSE products[1].id)
               /\ Len(match[c].matched_product) = 1
               /\ \E n \in DOMAIN products :
                    match[c].matched_product[1] = products[n]
               /\ match[c].matched_product[1].id = match[c].best_match_id
               /\ ~known => match[c].matched_product[1] = products[1]

C8_Witness ==
    \E c \in Calls :
        /\ Matched(c)
        /\ WellFormedMatch(reply[c])
        /\ reply[c].text.obj["best_match_id"] = JStr(P9)
        /\ Len(req[c].products) = 2
        /\ req[c].products[1].id # req[c].products[2].id
        /\ match[c].best_match_id = req[c].products[1].id
        /\ match[c].matched_product = <<req[c].products[1]>>

\* max(0, min(100, v)), written out.
Clamped(v) == IF v < 0 THEN 0 ELSE IF v > 100 THEN 100 ELSE v

GivenInt(c, key) ==
    /\ reply[c].kind = "content"
    /\ reply[c].text.form = "json"
    /\ reply[c].text.top = "object"
    /\ reply[c].text.obj[key].t = "int"

\* C9: an integer score v of the response comes back as max(0, min(100, v))
\* in confidence_score and in match_score, and no score that is returned
\* or stored is outside 0..100.
C9_ScoresClamped ==
    \A c \in Calls :
        /\ (Analysed(c) /\ svc[c].status = "returned")
            => /\ analysis[c]["confidence_score"].t = "int"
               /\ analysis[c]["confidence_score"].i \in 0 .. 100
               /\ GivenInt(c, "confidence_score")
                    => analysis[c]["confidence_score"].i =
                         Clamped(reply[c].text.obj["confidence_score"].i)
        /\ (Matched(c) /\ svc[c].status = "returned")
            => /\ match[c].match_score \in 0 .. 100
               /\ GivenInt(c, "match_score")
                    => match[c].match_score =
                         Clamped(reply[c].text.obj["match_score"].i)

C9_Witness ==
    \E c \in Calls :
        /\ Matched(c)
        /\ svc[c].status = "returned"
        /\ GivenInt(c, "match_score")
        /\ reply[c].text.obj["match_score"].i < 0
        /\ match[c].match_score = 0

\* C10: a response that is well formed but for its match_score, which is
\* missing, null or no number, yields a MatchResult with match_score 0 and
\* the id and reasoning of the response.
C10_BadScoreBecomesZero ==
    \A c \in Calls :
        (/\ Matched(c)
         /\ reply[c].kind = "content"
         /\ reply[c].text.form = "json"
         /\ reply[c].text.top = "object"
         /\ reply[c].text.obj["best_match_id"].t = "str"
         /\ reply[c].text.obj["best_match_id"].s \in
                {req[c].products[n].id : n \in DOMAIN req[c].products}
         /\ reply[c].text.obj["reasoning"].t = "str"
         /\ \/ reply[c].text.obj["match_score"].t \in {"absent", "null", "list"}
            \/ /\ reply[c].text.obj["match_score"].t = "str"
               /\ ~IntOfStr(reply[c].text.obj["match_score"].s).ok)
        => /\ svc[c].status = "returned"
           /\ match[c].match_score = 0
           /\ match[c].best_match_id = reply[c].text.obj["best_match_id"].s
           /\ match[c].reasoning = reply[c].text.obj["reasoning"].s

(***************************************************************************)
(* Face-shape resolution                                                   *)
(***************************************************************************)
Resolved == pure_call.fn = "_resolve_face_shape" /\ pure_call.done

\* A field that is text, null or missing, and the text it stands for.
Textual(v) == v.t \in {"str", "null", "absent"}
TextOf(v) == IF v.t = "str" THEN v.s ELSE <<>>

\* The six shapes in the order the summary is searched for them.
NamedShapes == <<W_Oval, W_Round, W_Square, W_Heart, W_Diamond, W_Oblong>>

SameIgnoringCase(a, b) == lower(a) = lower(b)

ExpectedShape(face_shape, summary) ==
    LET kept == {k \in DOMAIN NamedShapes :
                   SameIgnoringCase(strip(face_shape), NamedShapes[k])}
        named == {k \in DOMAIN NamedShapes :
                    Contains(lower(summary), lower(NamedShapes[k]))}
    IN  IF kept # {} THEN NamedShapes[CHOOSE k \in kept : TRUE]
        ELSE IF named # {}
             THEN NamedShapes[CHOOSE k \in named : \A j \in named : k <= j]
             ELSE W_Oval

\* C11: _resolve_face_shape returns whenever face_shape and summary are text,
\* null or missing, and whenever it returns the result is one of the six
\* shapes: the face_shape itself if, trimmed and compared without regard to
\* case, it is one of them; otherwise the first of Oval, Round, Square, Heart,
\* Diamond, Oblong whose name occurs in the summary without regard to case;
\* otherwise Oval.
C11_FaceShapeResolved ==
    Resolved =>
        LET face_shape == pure_call.arg["face_shape"]
            summary == pure_call.arg["summary"]
            expected == ExpectedShape(TextOf(face_shape), TextOf(summary))
        IN  /\ Textual(face_shape) /\ Textual(summary) => pure_call.ret.ok
            /\ pure_call.ret.ok =>
                  /\ pure_call.ret.val = JStr(expected)
                  /\ expected \in FACE_SHAPES

\* No face_shape and the summary "Her round face": the result is Round.
C11_Witness ==
    /\ Resolved
    /\ pure_call.arg["face_shape"] = Absent
    /\ pure_call.arg["summary"] = JStr(ROUND_FACE)
    /\ pure_call.ret = Return(JStr(W_Round))

\* A face_shape that is no shape and a summary naming both square and oval:
\* the result is Oval.
C11_WitnessBothNamed ==
    /\ Resolved
    /\ pure_call.arg["face_shape"] = JStr(HEXAGON)
    /\ pure_call.arg["summary"] = JStr(SQUARE_OVAL)
    /\ pure_call.ret = Return(JStr(W_Oval))

(***************************************************************************)
(* Normalising twice                                                       *)
(***************************************************************************)
Renormalised == pure_call.fn = "analyze_face_image" /\ pure_call.redone

\* C12: a record returned by the analysis normalisation, a fallback record
\* included, written as JSON and normalised again comes back equal in every
\* field.
C12_NormalisationIdempotent ==
    Renormalised =>
        /\ pure_call.again.ok
        /\ \A k \in Keys : pure_call.again.val[k] = pure_call.ret.val[k]

\* A response the first normalisation changed (face_shape " sQUARE " became
\* Square) and the second left as it was.
C12_Witness ==
    /\ Renormalised
    /\ pure_call.arg.kind = "content"
    /\ pure_call.arg.text.obj["face_shape"] = JStr(SQUARE_PADDED)
    /\ pure_call.ret.val["face_shape"] = JStr(W_Square)
    /\ pure_call.again.val = pure_call.ret.val

\* A fallback record normalised again.
C12_WitnessFallback ==
    /\ Renormalised
    /\ pure_call.arg = ProviderError
    /\ pure_call.ret.val["summary"] = ErrorSummary("OpenAIError")
    /\ pure_call.again.val = pure_call.ret.val

(***************************************************************************)
(* Hex colour codes                                                        *)
(***************************************************************************)
HexValidated == pure_call.fn = "validate_hex" /\ pure_call.done

HexDigits ==
    {Digits[k] : k \in DOMAIN Digits}
    \cup {LowerCase[k] : k \in 1 .. 6} \cup {UpperCase[k] : k \in 1 .. 6}

\* #RGB or #RRGGBB: '#' followed by 3 or 6 hexadecimal digits.
IsHexColour(chars) ==
    /\ Len(chars) \in {4, 7}
    /\ chars[1] = "#"
    /\ \A k \in 2 .. Len(chars) : chars[k] \in HexDigits

\* C13: a hex_code is accepted exactly when, trimmed, it is '#' followed by
\* 3 or 6 hexadecimal digits, and an accepted one is stored trimmed and in
\* upper case.
C13_HexCodeValidated ==
    HexValidated =>
        /\ pure_call.ret.ok <=> IsHexColour(strip(pure_call.arg))
        /\ pure_call.ret.ok =>
              pure_call.ret.val = JStr(upper(strip(pure_call.arg)))

\* '#GGG' is accepted, and stored as it is.
C13_NonHexAccepted ==
    /\ HexValidated
    /\ pure_call.arg = <<"#", "G", "G", "G">>
    /\ pure_call.ret = Return(JStr(<<"#", "G", "G", "G">>))

(***************************************************************************)
(* Gateway attempts                                                        *)
(***************************************************************************)
\* C14: no run of analyze_face_image or of get_shade_recommendation calls
\* the gateway more than once, and a run whose call failed has ended with
\* that one call.
C14_OneGatewayAttempt ==
    \A c \in Calls :
        /\ gateway_calls[c] <= 1
        /\ pc[c] = "awaiting" => gateway_calls[c] = 1
        /\ reply[c].kind = "OpenAIError" =>
              pc[c] = "done" /\ gateway_calls[c] = 1

\* The gateway call of an analysis failed and the run has ended.
C14_Witness ==
    \E c \in Calls :
        /\ Analysed(c)
        /\ reply[c] = ProviderError
        /\ gateway_calls[c] = 1

\* The gateway call of a recommendation failed and the run has ended.
C14_WitnessMatch ==
    \E c \in Calls :
        /\ Matched(c)
        /\ reply[c] = ProviderError
        /\ gateway_calls[c] = 1

(***************************************************************************)
(* Concurrent calls                                                        *)
(***************************************************************************)
\* C15: whatever the interleaving of concurrent calls, _FALLBACK_ANALYSIS
\* keeps its initial value, and what a call returned is what its own
\* request and its own gateway outcome give: an analysis record is the
\* normalisation of the call's outcome over the initial template, and a
\* match is the normalisation of the call's outcome over the call's products.
C15_CallsIndependent ==
    /\ FALLBACK_ANALYSIS = FallbackTemplate
    /\ \A c \in Calls :
          /\ Analysed(c) =>
                LET own == analyze_face_image_resume(FallbackTemplate, reply[c])
                IN  /\ svc[c] = Outcome(own)
                    /\ own.ok => analysis[c] = own.val
          /\ Matched(c) =>
                LET own == get_shade_recommendation_resume(req[c].products,
                                                           reply[c])
                IN  /\ svc[c] = Outcome(own)
                    /\ own.ok => match[c] = own.val

\* An analysis has ended with a fallback record while another call is
\* suspended at the gateway.
C15_Witness ==
    \E c, d \in Calls :
        /\ Analysed(c) /\ pc[d] = "awaiting"
        /\ analysis[c]["summary"] = ErrorSummary("OpenAIError")

\* Two analyses have ended with the fallback records of two different
\* errors, each holding its own.
C15_WitnessTwoErrors ==
    \E c, d \in Calls :
        /\ Analysed(c) /\ Analysed(d)
        /\ analysis[c]["summary"] = ErrorSummary("OpenAIError")
        /\ analysis[d]["summary"] = ErrorSummary("JSONDecodeError")

(***************************************************************************)
(* The recommendation log                                                  *)
(***************************************************************************)
\* The requests whose recommendation was returned and that carry a user_id.
Loggable ==
    {c \in Calls : /\ Matched(c)
                   /\ svc[c].status = "returned"
                   /\ Truthy(req[c].user_id)}

\* C16: RecommendationLog holds at most one row per request whose
\* get_shade_recommendation has returned and whose user_id is not empty,
\* each row holds the user_id of such a request and the best_match_id and
\* match_score of the MatchResult returned to it, and there is no row while
\* no such request exists: none before the recommendation has returned, none
\* for a request without user_id and none for a recommendation that failed.
C16_LogOnlyAfterSuccess ==
    /\ Len(recommendation_logs) <= Cardinality(Loggable)
    /\ \A k \in DOMAIN recommendation_logs :
          \E c \in Loggable :
              /\ recommendation_logs[k].user_id = req[c].user_id.s
              /\ recommendation_logs[k].best_match_product_id =
                    match[c].best_match_id
              /\ recommendation_logs[k].match_score = match[c].match_score

\* A request with a user_id got its recommendation and the row is there.
C16_Witness ==
    \E c \in Loggable :
        /\ Len(recommendation_logs) = 1
        /\ recommendation_logs[1].best_match_product_id = match[c].best_match_id
        /\ recommendation_logs[1].match_score = match[c].match_score

\* A request with a user_id whose recommendation failed: no row.
C16_WitnessFailed ==
    \E c \in Calls :
        /\ Matched(c)
        /\ svc[c].status = "raised"
        /\ Truthy(req[c].user_id)
        /\ recommendation_logs = <<>>

====
